---- MODULE Spec2Model ----
(***************************************************************************)
(* A model of vity's CLI (src/src/vity/cli.py): the installer that edits   *)
(* ~/.bashrc, the recording session kept by the shell function it          *)
(* installs, and the do/chat pipeline of main().                           *)
(***************************************************************************)
EXTENDS Integers, Sequences, FiniteSets, TLC

VARIABLES
    \* ---- installer: ~/.bashrc and the history of the calls made on it
    bashrc,         \* NoFile, or the file's text as its lines (text.split('\n'))
    lastOp,         \* "none" | "install" | "reinstall": the last call made
    prevBashrc,     \* bashrc before the last call
    runStart,       \* bashrc before the first call of the current run of installs
    installRun,     \* number of install calls made in a row, ending with the last call
    nOps,           \* calls made so far
    printed,        \* what the last call printed
    \* ---- recording session: the interactive shells running the vity function
    shells,         \* the login shell, then the subshell `script` runs in it, ...
    logs,           \* the terminal log files that exist
    routed,         \* the do or chat just routed by the function, and the state it saw
    statusOut,      \* what `vity status` has just reported
    \* ---- the do-mode parser applied to one text
    assistantText,  \* content: the text of the assistant message
    cmd_string,     \* what the do branch renders from it
    parsed,         \* whether the do branch has run on it
    \* ---- the do/chat pipeline of main(), one invocation per process
    chatFile,       \* the file at the chat path: [kind, hist]
    bashHistory,    \* ~/.bash_history: [exists, lines]
    pc,             \* where each invocation is
    args,           \* args.command, and whether -c was given (args.chat_file)
    chat_history,   \* the history loaded from the chat file
    updated_chat_history,   \* the history the generation call returned
    exitCode,       \* the exit code of the invocation that exited last
    stdout,         \* what the invocation has printed after "thinking..."
    chatFile0,      \* chatFile when the invocation started
    bash0,          \* bashHistory when the invocation started
    genInput,       \* the history the generation call was given
    failedAt,       \* "none", or the step the invocation failed at
    runs,           \* invocations started so far
    ioLog,          \* the loads, opens and writes made on the chat file, in order
    \* ---- the dispatch of main() and the first-run setup
    configFile,     \* NoConfig, or the key held by ~/.config/vity/.env
    lastRun,        \* the last invocation: its arguments, input and outcome
    invocations     \* invocations made so far

profileVars == <<bashrc, lastOp, prevBashrc, runStart, installRun, nOps, printed>>

routeVars == <<routed, statusOut>>

shellVars == <<shells, logs, routeVars>>

parserVars == <<assistantText, cmd_string, parsed>>

cliVars == <<chatFile, bashHistory, pc, args, chat_history, updated_chat_history,
             exitCode, stdout, chatFile0, bash0, genInput, failedAt, runs, ioLog>>

mainVars == <<configFile, lastRun, invocations>>

vars == <<profileVars, shellVars, parserVars, cliVars, mainVars>>

notProfile == <<shellVars, parserVars, cliVars, mainVars>>

notShell == <<profileVars, parserVars, cliVars, mainVars>>

notParser == <<profileVars, shellVars, cliVars, mainVars>>

notCli == <<profileVars, shellVars, parserVars, mainVars>>

notMain == <<profileVars, shellVars, parserVars, cliVars>>

(***************************************************************************)
(* Text.  A line of the profile is a sequence of tokens: " " is one        *)
(* whitespace character, "M" the text "# Vity shell integration", "}" the  *)
(* closing brace and "x" any other text.  A file's text is the sequence of *)
(* its lines as text.split('\n') gives them, so a text always has at least *)
(* one line and a text ending in a newline has a last line <<>>.           *)
(***************************************************************************)
\* A file that does not exist: no line at all, which no text is.
NoFile == <<>>

MarkerText == <<"M">>

BraceText == <<"}">>

EmptyLine == <<>>

RECURSIVE LStrip(_)
LStrip(line) ==
    IF line # <<>> /\ Head(line) = " " THEN LStrip(Tail(line)) ELSE line

RECURSIVE RStrip(_)
RStrip(line) ==
    IF line # <<>> /\ line[Len(line)] = " "
    THEN RStrip(SubSeq(line, 1, Len(line) - 1))
    ELSE line

\* str.strip()
Strip(line) == RStrip(LStrip(line))

\* "# Vity shell integration" in content: the marker has no newline in it, so
\* it occurs in the text iff it occurs inside one of its lines.
MarkerInContent(content) ==
    \E i \in 1..Len(content) : \E j \in 1..Len(content[i]) : content[i][j] = "M"

\* '\n'.join(new_lines), as the lines of the joined text: joining no line at
\* all gives the empty text, whose only line is empty.
JoinLines(new_lines) == IF new_lines = <<>> THEN <<EmptyLine>> ELSE new_lines

\* script_content without its leading and trailing newline: the marker line,
\* "vity() {", the indented body (no line of it is a lone brace), a blank
\* line of the body, and the closing brace of the function.
BlockLines == <<MarkerText, <<"x">>, <<" ", "x">>, <<" ">>, BraceText>>

\* What f.write(f"\n{script_content}") adds after the text's last line:
\* "\n" ends the last line, script_content starts and ends with "\n".
AppendedLines == <<EmptyLine>> \o BlockLines \o <<EmptyLine>>

(***************************************************************************)
(* Strings of the do/chat pipeline.  A text is a sequence of characters:   *)
(* " " and "#" are themselves, "*" stands for the text "* vity generated   *)
(* command" and "c" for any other character.                               *)
(***************************************************************************)
\* " # "
Delimiter == <<" ", "#", " ">>

\* " * vity generated command"
Annotation == <<" ", "*">>

\* pat occurs in text at place i.
OccursAt(text, pat, i) ==
    /\ i >= 1
    /\ i + Len(pat) - 1 <= Len(text)
    /\ SubSeq(text, i, i + Len(pat) - 1) = pat

\* pat in text
Contains(text, pat) == \E i \in 1..Len(text) : OccursAt(text, pat, i)

\* str.find: the first place pat occurs at in text, 0 when there is none.
Find(text, pat) ==
    IF Contains(text, pat)
    THEN CHOOSE i \in 1..Len(text) :
             /\ OccursAt(text, pat, i)
             /\ \A j \in 1..(i - 1) : ~OccursAt(text, pat, j)
    ELSE 0

\* text.split(sep): the pieces between the occurrences of sep, found from
\* the left and not overlapping.
RECURSIVE Split(_, _)
Split(text, sep) ==
    LET i == Find(text, sep) IN
    IF i = 0 THEN <<text>>
    ELSE <<SubSeq(text, 1, i - 1)>> \o Split(SubSeq(text, i + Len(sep), Len(text)), sep)

\* text.replace(old, ""): every occurrence of old removed, found from the
\* left and not overlapping.
RECURSIVE Remove(_, _)
Remove(text, old) ==
    LET i == Find(text, old) IN
    IF i = 0 THEN text
    ELSE SubSeq(text, 1, i - 1) \o Remove(SubSeq(text, i + Len(old), Len(text)), old)

\* The do branch: cmd_string, or the content itself without a delimiter.
CmdString(text) ==
    IF Contains(text, Delimiter)
    THEN LET cmd_part == Split(text, Delimiter)[1]
             comment_part == Remove(Split(text, Delimiter)[2], Annotation)
         IN  cmd_part \o Delimiter \o comment_part
    ELSE text

(***************************************************************************)
(* install_shell_integration and reinstall_shell_integration               *)
(***************************************************************************)
\* install without its test for the marker: the block is appended every time.
InstalledContentNoTest(content) == content \o AppendedLines

\* install on an existing file: append the block unless the marker text
\* already occurs anywhere in the content.
InstalledContent(content) ==
    IF ~MarkerInContent(content) THEN content \o AppendedLines ELSE content

\* The loop of reinstall without the branch that leaves the section at the
\* closing brace: everything after the marker line is dropped.
RECURSIVE RemoveSectionNoExit(_, _, _)
RemoveSectionNoExit(lines, in_vity_section, new_lines) ==
    IF lines = <<>> THEN new_lines
    ELSE LET line == Head(lines) IN
         IF Strip(line) = MarkerText
         THEN RemoveSectionNoExit(Tail(lines), TRUE, new_lines)
         ELSE IF ~in_vity_section
         THEN RemoveSectionNoExit(Tail(lines), in_vity_section, Append(new_lines, line))
         ELSE RemoveSectionNoExit(Tail(lines), in_vity_section, new_lines)

\* The loop of reinstall over the lines still to read.
RECURSIVE RemoveSection(_, _, _)
RemoveSection(lines, in_vity_section, new_lines) ==
    IF lines = <<>> THEN new_lines
    ELSE LET line == Head(lines) IN
         IF Strip(line) = MarkerText
         THEN RemoveSection(Tail(lines), TRUE, new_lines)
         ELSE IF in_vity_section /\ Strip(line) = BraceText
         THEN RemoveSection(Tail(lines), FALSE, new_lines)
         ELSE IF ~in_vity_section
         THEN RemoveSection(Tail(lines), in_vity_section, Append(new_lines, line))
         ELSE RemoveSection(Tail(lines), in_vity_section, new_lines)

\* What reinstall writes back before it calls install.
CleanedContent(content) == JoinLines(RemoveSection(content, FALSE, <<>>))

ReinstalledContent(content) == InstalledContent(CleanedContent(content))

\* install with open(bashrc, "a") not guarded by bashrc.exists(): a missing
\* profile is created.
InstallResultCreates(file) ==
    IF file = NoFile THEN AppendedLines ELSE InstalledContent(file)

\* ~/.bashrc after install_shell_integration(): nothing is written when the
\* file does not exist.
InstallResult(file) ==
    IF file = NoFile THEN NoFile ELSE InstalledContent(file)

\* ~/.bashrc after reinstall_shell_integration(): it returns at once when
\* the file does not exist.
ReinstallResult(file) ==
    IF file = NoFile THEN NoFile ELSE ReinstalledContent(file)

\* What install prints.
InstallMessages(file) ==
    IF file = NoFile THEN << "not found" >>
    ELSE IF ~MarkerInContent(file) THEN << "installed", "source" >>
    ELSE << "already installed" >>

\* One "Removing existing shell integration..." per marker line read.
RECURSIVE RemovingMessages(_)
RemovingMessages(lines) ==
    IF lines = <<>> THEN <<>>
    ELSE (IF Strip(Head(lines)) = MarkerText THEN << "removing" >> ELSE <<>>)
             \o RemovingMessages(Tail(lines))

\* What reinstall prints, the messages of the install it calls included.
ReinstallMessages(file) ==
    IF file = NoFile THEN << "not found" >>
    ELSE << "reinstalling" >> \o RemovingMessages(file) \o << "installing fresh" >>
             \o InstallMessages(CleanedContent(file))
             \o << "reinstalled", "source" >>

\* ---- bounds and the initial profile files
MaxLines == 4

MaxOps == 3

\* The lines an initial profile is made of: blank, other text, the marker
\* line, the marker line with blanks around it, the marker text inside a
\* longer line, the closing brace, an indented closing brace.
ProfileLines ==
    { EmptyLine, <<"x">>, MarkerText, <<" ", "M", " ">>, <<"x", "M">>,
      BraceText, <<" ", "}">> }

RECURSIVE SeqsUpTo(_, _)
SeqsUpTo(S, n) ==
    IF n = 0 THEN { <<>> }
    ELSE LET shorter == SeqsUpTo(S, n - 1)
         IN  shorter \cup { Append(s, x) : s \in { t \in shorter : Len(t) = n - 1 }, x \in S }

ProfileContents == { c \in SeqsUpTo(ProfileLines, MaxLines) : c # <<>> }

\* The invocations of main() that may run at a time.
Procs == {1, 2}

MissingFile == [kind |-> "missing", hist |-> <<>>]

\* No config file.
NoConfig == <<>>

NoRun ==
    [command |-> "none", reset |-> FALSE, input |-> <<>>, before |-> NoConfig,
     prompted |-> FALSE, helped |-> FALSE, proceeded |-> FALSE, exit |-> 0]

\* The dispatch of main() is not modelled: a key is configured.
NoMain ==
    /\ configFile = <<"k">>
    /\ lastRun = NoRun
    /\ invocations = 0

\* No do or chat invocation is modelled.
NoCli ==
    /\ chatFile = MissingFile
    /\ bashHistory = [exists |-> FALSE, lines |-> <<>>]
    /\ pc = [p \in Procs |-> "idle"]
    /\ args = [p \in Procs |-> [command |-> "do", chat_file |-> FALSE]]
    /\ chat_history = [p \in Procs |-> <<>>]
    /\ updated_chat_history = [p \in Procs |-> <<>>]
    /\ exitCode = [p \in Procs |-> 0]
    /\ stdout = [p \in Procs |-> <<>>]
    /\ chatFile0 = [p \in Procs |-> MissingFile]
    /\ bash0 = [p \in Procs |-> [exists |-> FALSE, lines |-> <<>>]]
    /\ genInput = [p \in Procs |-> <<>>]
    /\ failedAt = [p \in Procs |-> "none"]
    /\ runs = 0
    /\ ioLog = <<>>

\* No do or chat has gone through the shell function, no status was asked.
NotRouted ==
    [cmd |-> "none", context |-> FALSE, file |-> <<>>, chat |-> <<>>, at |-> 0,
     nested |-> 0, activeLog |-> <<>>, activeChat |-> <<>>, logExists |-> FALSE]

NoStatus == [asked |-> FALSE, active |-> FALSE, log |-> <<>>, chat |-> <<>>]

\* No text is parsed.
NoParse ==
    /\ assistantText = <<>>
    /\ cmd_string = <<>>
    /\ parsed = FALSE

\* No shell is modelled.
NoShells ==
    /\ shells = <<>>
    /\ logs = {}
    /\ routed = NotRouted
    /\ statusOut = NoStatus

InitProfile ==
    /\ bashrc \in ProfileContents \cup {NoFile}
    /\ lastOp = "none"
    /\ prevBashrc = bashrc
    /\ runStart = bashrc
    /\ installRun = 0
    /\ nOps = 0
    /\ printed = <<>>
    /\ NoShells
    /\ NoParse
    /\ NoCli
    /\ NoMain

Install ==
    /\ nOps < MaxOps
    /\ bashrc' = InstallResult(bashrc)
    /\ printed' = InstallMessages(bashrc)
    /\ lastOp' = "install"
    /\ prevBashrc' = bashrc
    /\ runStart' = IF lastOp = "install" THEN runStart ELSE bashrc
    /\ installRun' = IF lastOp = "install" THEN installRun + 1 ELSE 1
    /\ nOps' = nOps + 1
    /\ UNCHANGED notProfile

Reinstall ==
    /\ nOps < MaxOps
    /\ bashrc' = ReinstallResult(bashrc)
    /\ printed' = ReinstallMessages(bashrc)
    /\ lastOp' = "reinstall"
    /\ prevBashrc' = bashrc
    /\ runStart' = bashrc
    /\ installRun' = 0
    /\ nOps' = nOps + 1
    /\ UNCHANGED notProfile

NextProfile == Install \/ Reinstall

SpecProfile == InitProfile /\ [][NextProfile]_vars

(***************************************************************************)
(* The recording session: the branch `vity record` of the shell function   *)
(* in script_content.  A shell's environment is a function from the names  *)
(* of the variables that are set to their values; a value is a sequence of *)
(* tokens.  Only the last shell of `shells` runs: every shell before it is *)
(* blocked in `script`, waiting for the subshell after it to exit.         *)
(***************************************************************************)
MarkerNames == {"VITY_ACTIVE_LOG", "VITY_ACTIVE_CHAT", "VITY_RECORDING", "VITY_OLD_PS1"}

\* "$name": an unset variable expands to the empty string.
Expand(env, name) == IF name \in DOMAIN env THEN env[name] ELSE <<>>

\* export name=val
Export(env, name, val) ==
    [n \in DOMAIN env \cup {name} |-> IF n = name THEN val ELSE env[n]]

\* unset names
Unset(env, names) == [n \in DOMAIN env \ names |-> env[n]]

\* The tokens that tell the shells and their sessions apart in a path:
\* $$ of the k-th shell, and the time its n-th session starts at.
PidToken == <<"pid1", "pid2", "pid3", "pid4", "pid5", "pid6">>

TimeToken == <<"t1", "t2", "t3", "t4", "t5", "t6">>

\* logfile and chatfile of the n-th session of the k-th shell.
LogFile(k, n) == <<"logs/", TimeToken[n], PidToken[k], ".log">>

ChatFile(k, n) == <<"chat/", TimeToken[n], PidToken[k], ".json">>

\* The exports made before script runs.
RecordEnv(env, k, n) ==
    LET e1 == Export(env, "VITY_ACTIVE_LOG", LogFile(k, n))
        e2 == Export(e1, "VITY_ACTIVE_CHAT", ChatFile(k, n))
        e3 == Export(e2, "VITY_RECORDING", <<"REC">>)
        e4 == Export(e3, "VITY_OLD_PS1", Expand(e3, "PS1"))
    IN  Export(e4, "PS1", Expand(e4, "VITY_RECORDING") \o <<" ">> \o Expand(e4, "PS1"))

\* The cleanup with the prompt restored before the markers are unset, and
\* the recording indicator left out of the unset.
CleanupEnvKeepsIndicator(env) ==
    Unset(Export(env, "PS1", Expand(env, "VITY_OLD_PS1")),
          MarkerNames \ {"VITY_RECORDING"})

\* What follows script: the unset of the four markers, then the export of
\* PS1 from $VITY_OLD_PS1, in this order.
CleanupEnv(env) ==
    LET e1 == Unset(env, MarkerNames)
    IN  Export(e1, "PS1", Expand(e1, "VITY_OLD_PS1"))

\* ---- bounds and the initial shell
MaxDepth == 3

MaxSessions == 2

\* The prompts a shell may start with: the empty prompt and "$".
Prompts == { <<>>, <<"$">> }

NewShell(env) ==
    [env |-> env, pc |-> "prompt", sessions |-> 0, ps1Before |-> <<>>,
     fromIdle |-> FALSE, captured |-> FALSE]

\* No profile is modelled.
NoProfile ==
    /\ bashrc = NoFile
    /\ lastOp = "none"
    /\ prevBashrc = NoFile
    /\ runStart = NoFile
    /\ installRun = 0
    /\ nOps = 0
    /\ printed = <<>>

InitShell ==
    /\ \E p \in Prompts : shells = << NewShell([n \in {"PS1"} |-> p]) >>
    /\ logs = {}
    /\ routed = NotRouted
    /\ statusOut = NoStatus
    /\ NoProfile
    /\ NoParse
    /\ NoCli
    /\ NoMain

Top == Len(shells)

\* routed and statusOut tell of the step just taken: any other step clears them.
Forget ==
    /\ routed' = NotRouted
    /\ statusOut' = NoStatus

\* vity record, up to the launch of script: the paths, the exports, the
\* messages.
RecordExport ==
    /\ Top >= 1 /\ Top < MaxDepth
    /\ shells[Top].pc = "prompt"
    /\ shells[Top].sessions < MaxSessions
    /\ shells' = [shells EXCEPT ![Top] =
           [@ EXCEPT !.env = RecordEnv(@, Top, shells[Top].sessions + 1),
                     !.pc = "launch",
                     !.ps1Before = Expand(shells[Top].env, "PS1"),
                     !.fromIdle = (DOMAIN shells[Top].env \cap MarkerNames = {}),
                     !.captured = FALSE]]
    /\ Forget
    /\ UNCHANGED <<logs, notShell>>

\* script -f "$logfile" starts: it creates the log and runs a subshell, which
\* inherits the exported environment; its profile may set a prompt of its own.
ScriptStart ==
    /\ Top >= 1
    /\ shells[Top].pc = "launch"
    /\ \E p \in Prompts \cup {Expand(shells[Top].env, "PS1")} :
          shells' = Append([shells EXCEPT ![Top].pc = "script", ![Top].captured = TRUE],
                           NewShell(Export(shells[Top].env, "PS1", p)))
    /\ logs' = logs \cup {Expand(shells[Top].env, "VITY_ACTIVE_LOG")}
    /\ Forget
    /\ UNCHANGED notShell

\* script cannot start (no such command, log not writable): it returns at once.
ScriptFail ==
    /\ Top >= 1
    /\ shells[Top].pc = "launch"
    /\ shells' = [shells EXCEPT ![Top].pc = "cleanup"]
    /\ Forget
    /\ UNCHANGED <<logs, notShell>>

\* The user exits the recorded subshell: script ends in the shell before it.
ExitSubshell ==
    /\ Top >= 2
    /\ shells[Top].pc = "prompt"
    /\ shells' = [SubSeq(shells, 1, Top - 1) EXCEPT ![Top - 1].pc = "cleanup"]
    /\ Forget
    /\ UNCHANGED <<logs, notShell>>

\* vity record, after script: the unset, the prompt, the message.
RecordCleanup ==
    /\ Top >= 1
    /\ shells[Top].pc = "cleanup"
    /\ shells' = [shells EXCEPT ![Top] =
           [@ EXCEPT !.env = CleanupEnv(@),
                     !.pc = "prompt",
                     !.sessions = @ + 1]]
    /\ Forget
    /\ UNCHANGED <<logs, notShell>>

\* The test of the do and chat branches without its -f part.
HasActiveLogNoFileTest(env, files) == Expand(env, "VITY_ACTIVE_LOG") # <<>>

\* [[ -n "$VITY_ACTIVE_LOG" && -f "$VITY_ACTIVE_LOG" ]]
HasActiveLog(env, files) ==
    /\ Expand(env, "VITY_ACTIVE_LOG") # <<>>
    /\ Expand(env, "VITY_ACTIVE_LOG") \in files

\* [[ -n "$VITY_ACTIVE_LOG" ]], the test of the status branch.
StatusActive(env) == Expand(env, "VITY_ACTIVE_LOG") # <<>>

\* The paths of the session that records the k-th shell: the session the shell
\* before it is blocked in.
RecordingLog(k) == LogFile(k - 1, shells[k - 1].sessions + 1)

RecordingChat(k) == ChatFile(k - 1, shells[k - 1].sessions + 1)

\* vity do ... / vity chat ...: command vity is run with -f and -c when the
\* active log is set and is a file, without them otherwise.
Route(cmd) ==
    /\ Top >= 1
    /\ shells[Top].pc = "prompt"
    /\ LET env == shells[Top].env
           with == HasActiveLog(env, logs)
       IN  routed' =
              [cmd |-> cmd,
               context |-> with,
               file |-> IF with THEN Expand(env, "VITY_ACTIVE_LOG") ELSE <<>>,
               chat |-> IF with THEN Expand(env, "VITY_ACTIVE_CHAT") ELSE <<>>,
               at |-> Top,
               nested |-> shells[Top].sessions,
               activeLog |-> IF Top >= 2 THEN RecordingLog(Top) ELSE <<>>,
               activeChat |-> IF Top >= 2 THEN RecordingChat(Top) ELSE <<>>,
               logExists |-> Top >= 2 /\ RecordingLog(Top) \in logs]
    /\ statusOut' = NoStatus
    /\ UNCHANGED <<shells, logs, notShell>>

\* vity status
Status ==
    /\ Top >= 1
    /\ shells[Top].pc = "prompt"
    /\ LET env == shells[Top].env
       IN  statusOut' =
              IF StatusActive(env)
              THEN [asked |-> TRUE, active |-> TRUE,
                    log |-> Expand(env, "VITY_ACTIVE_LOG"),
                    chat |-> Expand(env, "VITY_ACTIVE_CHAT")]
              ELSE [asked |-> TRUE, active |-> FALSE, log |-> <<>>, chat |-> <<>>]
    /\ routed' = NotRouted
    /\ UNCHANGED <<shells, logs, notShell>>

\* The log of the running session is removed from inside it (rm
\* "$VITY_ACTIVE_LOG" at the prompt): the function never removes one itself.
DeleteLog ==
    /\ Top >= 1
    /\ shells[Top].pc = "prompt"
    /\ Expand(shells[Top].env, "VITY_ACTIVE_LOG") \in logs
    /\ logs' = logs \ {Expand(shells[Top].env, "VITY_ACTIVE_LOG")}
    /\ Forget
    /\ UNCHANGED <<shells, notShell>>

NextShell ==
    \/ RecordExport
    \/ ScriptStart
    \/ ScriptFail
    \/ ExitSubshell
    \/ RecordCleanup
    \/ \E cmd \in {"do", "chat"} : Route(cmd)
    \/ Status
    \/ DeleteLog

SpecShell == InitShell /\ [][NextShell]_vars

(***************************************************************************)
(* The do-mode parser on its own: every text up to a length is parsed.     *)
(***************************************************************************)
MaxLen == 6

Chars == {" ", "#", "*", "c"}

Texts == SeqsUpTo(Chars, MaxLen)

InitParser ==
    /\ assistantText \in Texts
    /\ cmd_string = <<>>
    /\ parsed = FALSE
    /\ NoProfile
    /\ NoShells
    /\ NoCli
    /\ NoMain

ParseDo ==
    /\ ~parsed
    /\ cmd_string' = CmdString(assistantText)
    /\ parsed' = TRUE
    /\ UNCHANGED <<assistantText, notParser>>

NextParser == ParseDo

SpecParser == InitParser /\ [][NextParser]_vars

(***************************************************************************)
(* Properties of the parser                                                *)
(***************************************************************************)
\* C6: a text holding the delimiter is split at its first occurrence only:
\* the rendered string is the text left of it, the delimiter, and everything
\* right of it (further delimiters included) with the annotation removed.
C6_SplitAtFirstDelimiter ==
    (parsed /\ Contains(assistantText, Delimiter)) =>
        \E i \in 1..Len(assistantText) :
            /\ OccursAt(assistantText, Delimiter, i)
            /\ \A j \in 1..(i - 1) : ~OccursAt(assistantText, Delimiter, j)
            /\ cmd_string = SubSeq(assistantText, 1, i - 1) \o Delimiter
                   \o Remove(SubSeq(assistantText, i + Len(Delimiter), Len(assistantText)), Annotation)

(***************************************************************************)
(* main(): the do and chat commands.  A message is [role, hasContent,      *)
(* content]: hasContent tells whether the dict has the key "content", and  *)
(* content is its list of parts; a part is [hasText, text].                *)
(***************************************************************************)
TextPart(t) == [hasText |-> TRUE, text |-> t]

Message(r, parts) == [role |-> r, hasContent |-> TRUE, content |-> parts]

\* An assistant message with no "content" key, with an empty content list,
\* with a first part that has no "text", and with a text.
NoContentKey == [role |-> "assistant", hasContent |-> FALSE, content |-> <<>>]

EmptyContent == Message("assistant", <<>>)

PartWithoutText == Message("assistant", << [hasText |-> FALSE, text |-> <<>>] >>)

\* The texts a reply may hold: a plain reply, and a command with its comment
\* and the annotation ("ls -la # list files * vity generated command").
ReplyTexts == { <<"c">>, <<"c", " ", "#", " ", "c", " ", "*">> }

\* The messages the generation call may append (spec 4.2: one new message,
\* of role assistant; spec 4.3: its content may be missing or empty).
AssistantMessages ==
    { NoContentKey, EmptyContent, PartWithoutText }
        \cup { Message("assistant", <<TextPart(t)>>) : t \in ReplyTexts }

\* What generate_command and generate_chat_response return on success.
Generated(history, reply) == Append(history, reply)

\* A load that never reads the chat file.
LoadedHistoryEmpty(file) == <<>>

\* json.load of the chat file, with the two handlers of main(): a missing
\* file (or a missing directory) and a file that is not JSON both give [].
LoadedHistory(file) == IF file.kind = "json" THEN file.hist ELSE <<>>

\* A save that opens the chat file to append: what is not JSON stays so.
SavedFileAppends(file, history) ==
    IF file.kind = "malformed" THEN file
    ELSE [kind |-> "json", hist |-> LoadedHistory(file) \o history]

\* One access of an invocation to the chat file.
Access(p, op) == [proc |-> p, op |-> op]

\* The size of a message and of a history once serialised: it grows with
\* every message, part and character.
PartSize(part) == 1 + Len(part.text)

RECURSIVE PartsSize(_)
PartsSize(parts) ==
    IF parts = <<>> THEN 0 ELSE PartSize(Head(parts)) + PartsSize(Tail(parts))

MessageSize(msg) == 1 + PartsSize(msg.content)

RECURSIVE HistorySize(_)
HistorySize(history) ==
    IF history = <<>> THEN 0
    ELSE MessageSize(Head(history)) + HistorySize(Tail(history))

\* A file of no bytes, and a file whose bytes are not JSON.
EmptyFile == [kind |-> "empty", hist |-> <<>>]

Garbled == [kind |-> "malformed", hist |-> <<>>]

\* open(args.chat_file, "w"): the file is created or cut to no bytes.
Truncated(file) == EmptyFile

\* A write that lands after what the file holds instead of over it.
OverwrittenAppends(file, history) ==
    [kind |-> "json", hist |-> LoadedHistory(file) \o history]

\* json.dump and the close of a file opened with "w": the bytes are written
\* from the start of the file.  Over a file that holds nothing, or a history
\* no longer than the new one, the file is the new history; over a longer
\* history written meanwhile through another descriptor, the end of that one
\* stays after the new bytes and the file is not JSON.
Overwritten(file, history) ==
    IF file.kind \in {"empty", "missing"} THEN [kind |-> "json", hist |-> history]
    ELSE IF file.kind = "json" /\ HistorySize(file.hist) <= HistorySize(history)
    THEN [kind |-> "json", hist |-> history]
    ELSE Garbled

\* open(args.chat_file, "w") and json.dump: the file is the new history.
SavedFile(file, history) == [kind |-> "json", hist |-> history]

\* A scan from the start of the history: the place of the first message of
\* role assistant, 0 when there is none.
FirstAssistant(history) ==
    IF \E i \in 1..Len(history) : history[i].role = "assistant"
    THEN CHOOSE i \in 1..Len(history) :
             /\ history[i].role = "assistant"
             /\ \A j \in 1..(i - 1) : history[j].role # "assistant"
    ELSE 0

\* The place of the last message of role assistant, 0 when there is none:
\* the loop over reversed(updated_chat_history).
LastAssistant(history) ==
    IF \E i \in 1..Len(history) : history[i].role = "assistant"
    THEN CHOOSE i \in 1..Len(history) :
             /\ history[i].role = "assistant"
             /\ \A j \in (i + 1)..Len(history) : history[j].role # "assistant"
    ELSE 0

\* last_assistant_msg.get("content", [{}])[0].get("text", ""): the default
\* [{}] serves a missing key, [0] of an empty list raises IndexError.
ExtractText(msg) ==
    IF ~msg.hasContent THEN [raised |-> FALSE, text |-> <<>>]
    ELSE IF msg.content = <<>> THEN [raised |-> TRUE, text |-> <<>>]
    ELSE IF ~msg.content[1].hasText THEN [raised |-> FALSE, text |-> <<>>]
    ELSE [raised |-> FALSE, text |-> msg.content[1].text]

\* " # Vity generated"
VityGenerated == <<" ", "#", " ", "V">>

\* ---- bounds and the initial files
MaxRuns == 2

\* The chat file before the first invocation: missing, in a directory that
\* does not exist, not JSON, an empty history, a history of one turn.
InitialChatFiles ==
    { MissingFile,
      [kind |-> "nodir", hist |-> <<>>],
      [kind |-> "malformed", hist |-> <<>>],
      [kind |-> "json", hist |-> <<>>],
      [kind |-> "json",
       hist |-> << Message("user", <<TextPart(<<"c">>)>>),
                   Message("assistant", <<TextPart(<<"c">>)>>) >>] }

InitCli ==
    /\ chatFile \in InitialChatFiles
    /\ bashHistory \in { [exists |-> FALSE, lines |-> <<>>],
                         [exists |-> TRUE, lines |-> <<>>] }
    /\ pc = [p \in Procs |-> "idle"]
    /\ args = [p \in Procs |-> [command |-> "do", chat_file |-> FALSE]]
    /\ chat_history = [p \in Procs |-> <<>>]
    /\ updated_chat_history = [p \in Procs |-> <<>>]
    /\ exitCode = [p \in Procs |-> 0]
    /\ stdout = [p \in Procs |-> <<>>]
    /\ chatFile0 = [p \in Procs |-> chatFile]
    /\ bash0 = [p \in Procs |-> bashHistory]
    /\ genInput = [p \in Procs |-> <<>>]
    /\ failedAt = [p \in Procs |-> "none"]
    /\ runs = 0
    /\ ioLog = <<>>
    /\ NoProfile
    /\ NoShells
    /\ NoParse
    /\ NoMain

\* vity [-c chat_file] do|chat prompt: the arguments are parsed.
Start(p, command, chat_file) ==
    /\ pc[p] = "idle"
    /\ runs < MaxRuns
    /\ runs' = runs + 1
    /\ pc' = [pc EXCEPT ![p] = "load"]
    /\ args' = [args EXCEPT ![p] = [command |-> command, chat_file |-> chat_file]]
    /\ chat_history' = [chat_history EXCEPT ![p] = <<>>]
    /\ updated_chat_history' = [updated_chat_history EXCEPT ![p] = <<>>]
    /\ stdout' = [stdout EXCEPT ![p] = <<>>]
    /\ chatFile0' = [chatFile0 EXCEPT ![p] = chatFile]
    /\ bash0' = [bash0 EXCEPT ![p] = bashHistory]
    /\ genInput' = [genInput EXCEPT ![p] = <<>>]
    /\ failedAt' = [failedAt EXCEPT ![p] = "none"]
    /\ UNCHANGED <<chatFile, bashHistory, exitCode, ioLog, notCli>>

\* The chat history is loaded when -c was given.
LoadChat(p) ==
    /\ pc[p] = "load"
    /\ chat_history' = [chat_history EXCEPT ![p] =
           IF args[p].chat_file THEN LoadedHistory(chatFile) ELSE <<>>]
    /\ ioLog' = IF args[p].chat_file THEN Append(ioLog, Access(p, "load")) ELSE ioLog
    /\ pc' = [pc EXCEPT ![p] = "generate"]
    /\ UNCHANGED <<chatFile, bashHistory, args, updated_chat_history, exitCode,
                   stdout, chatFile0, bash0, genInput, failedAt, runs, notCli>>

\* The generation call returns the updated history.
GenerateOk(p) ==
    /\ pc[p] = "generate"
    /\ \E reply \in AssistantMessages :
          updated_chat_history' =
              [updated_chat_history EXCEPT ![p] = Generated(chat_history[p], reply)]
    /\ genInput' = [genInput EXCEPT ![p] = chat_history[p]]
    /\ pc' = [pc EXCEPT ![p] = "extract"]
    /\ UNCHANGED <<chatFile, bashHistory, args, chat_history, exitCode, stdout,
                   chatFile0, bash0, failedAt, runs, ioLog, notCli>>

\* The generation call raises, and a save is made all the same.
GenerateFailSaves(p) ==
    /\ pc[p] = "generate"
    /\ genInput' = [genInput EXCEPT ![p] = chat_history[p]]
    /\ failedAt' = [failedAt EXCEPT ![p] = "generate"]
    /\ stdout' = [stdout EXCEPT ![p] = Append(@, [what |-> "error", text |-> <<>>])]
    /\ exitCode' = [exitCode EXCEPT ![p] = 1]
    /\ chatFile' = IF args[p].chat_file /\ chatFile.kind # "nodir"
                   THEN SavedFile(chatFile, chat_history[p])
                   ELSE chatFile
    /\ pc' = [pc EXCEPT ![p] = "exited"]
    /\ UNCHANGED <<bashHistory, args, chat_history, updated_chat_history,
                   chatFile0, bash0, runs, ioLog, notCli>>

\* The generation call raises: the handler prints the error and exits 1.
GenerateFail(p) ==
    /\ pc[p] = "generate"
    /\ genInput' = [genInput EXCEPT ![p] = chat_history[p]]
    /\ failedAt' = [failedAt EXCEPT ![p] = "generate"]
    /\ stdout' = [stdout EXCEPT ![p] = Append(@, [what |-> "error", text |-> <<>>])]
    /\ exitCode' = [exitCode EXCEPT ![p] = 1]
    /\ pc' = [pc EXCEPT ![p] = "exited"]
    /\ UNCHANGED <<chatFile, bashHistory, args, chat_history, updated_chat_history,
                   chatFile0, bash0, runs, ioLog, notCli>>

\* The last assistant message is looked for, its text extracted and printed;
\* in do mode a rendered command is appended to ~/.bash_history.
Extract(p) ==
    /\ pc[p] = "extract"
    /\ LET history == updated_chat_history[p]
           i == LastAssistant(history)
           got == IF i = 0 THEN [raised |-> FALSE, text |-> <<>>]
                  ELSE ExtractText(history[i])
           split == args[p].command = "do" /\ Contains(got.text, Delimiter)
       IN  IF i = 0
           THEN /\ pc' = [pc EXCEPT ![p] = "save"]
                /\ UNCHANGED <<bashHistory, exitCode, stdout, failedAt>>
           ELSE IF got.raised
           THEN /\ pc' = [pc EXCEPT ![p] = "exited"]
                /\ exitCode' = [exitCode EXCEPT ![p] = 1]
                /\ failedAt' = [failedAt EXCEPT ![p] = "extract"]
                /\ stdout' = [stdout EXCEPT ![p] =
                       Append(@, [what |-> "error", text |-> <<>>])]
                /\ UNCHANGED bashHistory
           ELSE /\ pc' = [pc EXCEPT ![p] = "save"]
                /\ stdout' = [stdout EXCEPT ![p] =
                       Append(@, IF args[p].command = "do"
                                 THEN [what |-> "command", text |-> CmdString(got.text)]
                                 ELSE [what |-> "reply", text |-> got.text])]
                /\ bashHistory' =
                       IF split /\ bashHistory.exists
                       THEN [bashHistory EXCEPT !.lines =
                                Append(@, CmdString(got.text) \o VityGenerated)]
                       ELSE bashHistory
                /\ UNCHANGED <<exitCode, failedAt>>
    /\ UNCHANGED <<chatFile, args, chat_history, updated_chat_history, chatFile0,
                   bash0, genInput, runs, ioLog, notCli>>

\* The updated history is saved when -c was given; main() returns.
Save(p) ==
    /\ pc[p] = "save"
    /\ IF ~args[p].chat_file
       THEN /\ exitCode' = [exitCode EXCEPT ![p] = 0]
            /\ UNCHANGED <<chatFile, failedAt, stdout, ioLog>>
       ELSE IF chatFile.kind = "nodir"
       THEN /\ exitCode' = [exitCode EXCEPT ![p] = 1]
            /\ failedAt' = [failedAt EXCEPT ![p] = "save"]
            /\ stdout' = [stdout EXCEPT ![p] =
                   Append(@, [what |-> "error", text |-> <<>>])]
            /\ UNCHANGED <<chatFile, ioLog>>
       ELSE /\ chatFile' = SavedFile(chatFile, updated_chat_history[p])
            /\ ioLog' = ioLog \o << Access(p, "open"), Access(p, "write") >>
            /\ exitCode' = [exitCode EXCEPT ![p] = 0]
            /\ UNCHANGED <<failedAt, stdout>>
    /\ pc' = [pc EXCEPT ![p] = "exited"]
    /\ UNCHANGED <<bashHistory, args, chat_history, updated_chat_history,
                   chatFile0, bash0, genInput, runs, notCli>>

\* The process is gone; the next invocation may start.
Return(p) ==
    /\ pc[p] = "exited"
    /\ runs < MaxRuns
    /\ pc' = [pc EXCEPT ![p] = "idle"]
    /\ UNCHANGED <<chatFile, bashHistory, args, chat_history, updated_chat_history,
                   exitCode, stdout, chatFile0, bash0, genInput, failedAt, runs,
                   ioLog, notCli>>

\* One invocation at a time.
NextCli ==
    \/ \E command \in {"do", "chat"}, chat_file \in BOOLEAN : Start(1, command, chat_file)
    \/ LoadChat(1)
    \/ GenerateOk(1)
    \/ GenerateFail(1)
    \/ Extract(1)
    \/ Save(1)
    \/ Return(1)

SpecCli == InitCli /\ [][NextCli]_vars

\* ---- two invocations at a time on one chat path
\* The with-statement of the save, entered: open(args.chat_file, "w").
SaveOpen(p) ==
    /\ pc[p] = "save"
    /\ IF ~args[p].chat_file
       THEN /\ exitCode' = [exitCode EXCEPT ![p] = 0]
            /\ pc' = [pc EXCEPT ![p] = "exited"]
            /\ UNCHANGED <<chatFile, failedAt, stdout, ioLog>>
       ELSE IF chatFile.kind = "nodir"
       THEN /\ exitCode' = [exitCode EXCEPT ![p] = 1]
            /\ failedAt' = [failedAt EXCEPT ![p] = "save"]
            /\ stdout' = [stdout EXCEPT ![p] =
                   Append(@, [what |-> "error", text |-> <<>>])]
            /\ pc' = [pc EXCEPT ![p] = "exited"]
            /\ UNCHANGED <<chatFile, ioLog>>
       ELSE /\ chatFile' = Truncated(chatFile)
            /\ ioLog' = Append(ioLog, Access(p, "open"))
            /\ pc' = [pc EXCEPT ![p] = "write"]
            /\ UNCHANGED <<exitCode, failedAt, stdout>>
    /\ UNCHANGED <<bashHistory, args, chat_history, updated_chat_history,
                   chatFile0, bash0, genInput, runs, notCli>>

\* The with-statement of the save, left: json.dump, flush and close.
SaveWrite(p) ==
    /\ pc[p] = "write"
    /\ chatFile' = Overwritten(chatFile, updated_chat_history[p])
    /\ ioLog' = Append(ioLog, Access(p, "write"))
    /\ exitCode' = [exitCode EXCEPT ![p] = 0]
    /\ pc' = [pc EXCEPT ![p] = "exited"]
    /\ UNCHANGED <<bashHistory, args, chat_history, updated_chat_history, stdout,
                   chatFile0, bash0, genInput, failedAt, runs, notCli>>

\* Each of the two processes runs vity -c chat_file chat ... once, on the
\* same chat path.
InitRace ==
    /\ chatFile \in InitialChatFiles
    /\ bashHistory = [exists |-> FALSE, lines |-> <<>>]
    /\ pc = [p \in Procs |-> "idle"]
    /\ args = [p \in Procs |-> [command |-> "chat", chat_file |-> TRUE]]
    /\ chat_history = [p \in Procs |-> <<>>]
    /\ updated_chat_history = [p \in Procs |-> <<>>]
    /\ exitCode = [p \in Procs |-> 0]
    /\ stdout = [p \in Procs |-> <<>>]
    /\ chatFile0 = [p \in Procs |-> chatFile]
    /\ bash0 = [p \in Procs |-> bashHistory]
    /\ genInput = [p \in Procs |-> <<>>]
    /\ failedAt = [p \in Procs |-> "none"]
    /\ runs = 0
    /\ ioLog = <<>>
    /\ NoProfile
    /\ NoShells
    /\ NoParse
    /\ NoMain

NextRace ==
    \E p \in Procs :
        \/ Start(p, "chat", TRUE)
        \/ LoadChat(p)
        \/ GenerateOk(p)
        \/ GenerateFail(p)
        \/ Extract(p)
        \/ SaveOpen(p)
        \/ SaveWrite(p)

SpecRace == InitRace /\ [][NextRace]_vars

\* ---- the dispatch of main() and setup_config()
MaxInvocations == 3

\* What may be typed at "Enter your OpenAI API key: ": nothing, blanks, a
\* key, a key with blanks around it.
KeyInputs == { <<>>, <<" ">>, <<"k">>, <<" ", "k", " ">> }

\* args.command: None when no subcommand was given.
Commands == { "none", "do", "chat", "install", "reinstall", "config" }

\* setup_config() that never fails: an empty key is accepted as no key.
SetupConfigNoKeyNeeded(config, input) ==
    [ok |-> TRUE, prompted |-> config = NoConfig, config |-> config]

\* setup_config(): with a config file nothing is asked; without one the key
\* is read and stripped, an empty key makes it return False, any other key
\* is written to the file.
SetupConfig(config, input) ==
    IF config # NoConfig THEN [ok |-> TRUE, prompted |-> FALSE, config |-> config]
    ELSE IF Strip(input) = <<>>
    THEN [ok |-> FALSE, prompted |-> TRUE, config |-> NoConfig]
    ELSE [ok |-> TRUE, prompted |-> TRUE, config |-> Strip(input)]

\* reset_config(): the file is unlinked when it exists.
ResetConfig(config) == NoConfig

InitMain ==
    /\ configFile \in { NoConfig, <<"k">> }
    /\ lastRun = NoRun
    /\ invocations = 0
    /\ NoProfile
    /\ NoShells
    /\ NoParse
    /\ NoCli

\* One run of main(): install, reinstall and config are served first; the
\* other commands go through setup_config(), then help is printed when there
\* is no subcommand, and do and chat proceed to the pipeline, which ends
\* with 0 or with 1.
Main(command, reset, input) ==
    /\ invocations < MaxInvocations
    /\ invocations' = invocations + 1
    /\ LET run == [command |-> command, reset |-> reset, input |-> input,
                   before |-> configFile, prompted |-> FALSE, helped |-> FALSE,
                   proceeded |-> FALSE, exit |-> 0]
           setup == SetupConfig(configFile, input)
       IN  IF command \in {"install", "reinstall"}
           THEN /\ lastRun' = run
                /\ UNCHANGED configFile
           ELSE IF command = "config"
           THEN /\ lastRun' = run
                /\ configFile' = IF reset THEN ResetConfig(configFile) ELSE configFile
           ELSE IF ~setup.ok
           THEN /\ lastRun' = [run EXCEPT !.prompted = setup.prompted, !.exit = 1]
                /\ configFile' = setup.config
           ELSE IF command = "none"
           THEN /\ lastRun' = [run EXCEPT !.prompted = setup.prompted, !.helped = TRUE]
                /\ configFile' = setup.config
           ELSE /\ \E code \in {0, 1} :
                      lastRun' = [run EXCEPT !.prompted = setup.prompted,
                                             !.proceeded = TRUE, !.exit = code]
                /\ configFile' = setup.config
    /\ UNCHANGED notMain

NextMain ==
    \E command \in Commands, reset \in BOOLEAN, input \in KeyInputs :
        /\ reset => command = "config"
        /\ Main(command, reset, input)

SpecMain == InitMain /\ [][NextMain]_vars

\* ---- the selection of the last assistant message, on any returned history
MaxHistory == 4

\* The messages of a returned history: a user turn and the assistant replies.
HistoryMessages ==
    { Message("user", <<TextPart(<<"c">>)>>) }
        \cup { Message("assistant", <<TextPart(t)>>) : t \in ReplyTexts }

\* The histories a generation call may return to main(): any sequence of
\* messages, with or without one of role assistant, in any order.
ReturnedHistories ==
    UNION { [1..n -> HistoryMessages] : n \in 0..MaxHistory }

\* generate_command / generate_chat_response has just returned.
InitSelect ==
    /\ chatFile = [kind |-> "json", hist |-> <<>>]
    /\ bashHistory \in { [exists |-> FALSE, lines |-> <<>>],
                         [exists |-> TRUE, lines |-> <<>>] }
    /\ pc = [p \in Procs |-> IF p = 1 THEN "extract" ELSE "idle"]
    /\ \E command \in {"do", "chat"}, chat_file \in BOOLEAN :
          args = [p \in Procs |-> [command |-> IF p = 1 THEN command ELSE "do",
                                   chat_file |-> p = 1 /\ chat_file]]
    /\ chat_history = [p \in Procs |-> <<>>]
    /\ \E history \in ReturnedHistories :
          updated_chat_history = [p \in Procs |-> IF p = 1 THEN history ELSE <<>>]
    /\ exitCode = [p \in Procs |-> 0]
    /\ stdout = [p \in Procs |-> <<>>]
    /\ chatFile0 = [p \in Procs |-> chatFile]
    /\ bash0 = [p \in Procs |-> bashHistory]
    /\ genInput = [p \in Procs |-> <<>>]
    /\ failedAt = [p \in Procs |-> "none"]
    /\ runs = MaxRuns
    /\ ioLog = <<>>
    /\ NoProfile
    /\ NoShells
    /\ NoParse
    /\ NoMain

NextSelect ==
    \/ Extract(1)
    \/ Save(1)

SpecSelect == InitSelect /\ [][NextSelect]_vars

(***************************************************************************)
(* Properties of the do/chat pipeline (of invocation 1, run alone)         *)
(***************************************************************************)
\* The generation call of the invocation has returned a history.
GenerationDone(p) ==
    /\ pc[p] \in {"extract", "save", "exited"}
    /\ failedAt[p] # "generate"

\* The assistant message the invocation selects: the last one, if any.
HasSelected(p) == LastAssistant(updated_chat_history[p]) # 0

Selected(p) == updated_chat_history[p][LastAssistant(updated_chat_history[p])]

\* C7: a do invocation that exits 0 with an assistant message found, while
\* ~/.bash_history exists, has appended exactly one line to it: the rendered
\* command and the annotation, with and without the delimiter in the text.
\* (Stated of the replies that hold a text, the case the claim is about.)
C7_DoAppendsOneLine ==
    ( /\ pc[1] = "exited"
      /\ exitCode[1] = 0
      /\ args[1].command = "do"
      /\ HasSelected(1)
      /\ ExtractText(Selected(1)).text # <<>>
      /\ bash0[1].exists )
    => /\ bashHistory.exists
       /\ bashHistory.lines =
              Append(bash0[1].lines,
                     CmdString(ExtractText(Selected(1)).text) \o VityGenerated)

\* C8: when the selected assistant message has no content key, an empty
\* content list or a first part without text, the invocation goes on with
\* the empty string: it prints it, saves the history when -c names a
\* writable path, and exits 0, never by the error path.
C8_MissingTextDegrades ==
    ( /\ pc[1] = "exited"
      /\ GenerationDone(1)
      /\ HasSelected(1)
      /\ Selected(1) \in {NoContentKey, EmptyContent, PartWithoutText}
      /\ ~(args[1].chat_file /\ chatFile0[1].kind = "nodir") )
    => /\ exitCode[1] = 0
       /\ failedAt[1] = "none"
       /\ stdout[1] # <<>> /\ stdout[1][Len(stdout[1])].text = <<>>
       /\ args[1].chat_file =>
              chatFile = [kind |-> "json", hist |-> updated_chat_history[1]]

\* C9: when the generation call fails the invocation exits with code 1 and
\* the chat file and ~/.bash_history are as they were when it started.
C9_FailedGenerationWritesNothing ==
    failedAt[1] = "generate" =>
        /\ pc[1] \in {"exited", "idle"}
        /\ exitCode[1] = 1
        /\ chatFile = chatFile0[1]
        /\ bashHistory = bash0[1]

\* A do invocation given a chat file that holds a history, with a shell
\* history that exists, has failed in the generation call and exited.
C9_Witness ==
    /\ failedAt[1] = "generate"
    /\ pc[1] = "exited"
    /\ args[1].chat_file
    /\ chatFile0[1].kind = "json"
    /\ chatFile0[1].hist # <<>>
    /\ bash0[1].exists

\* C10: with a chat file that is not JSON, the generation call is given the
\* empty history, the file is as it was until the save of a successful
\* invocation, which replaces it by the new history alone, and it is still
\* as it was after an invocation that failed.
C10_MalformedChatFile ==
    (args[1].chat_file /\ chatFile0[1].kind = "malformed" /\ pc[1] # "idle") =>
        /\ pc[1] \in {"load", "generate", "extract", "save"} => chatFile = chatFile0[1]
        /\ pc[1] \in {"generate", "extract", "save"} => chat_history[1] = <<>>
        /\ pc[1] \in {"extract", "save", "exited"} => genInput[1] = <<>>
        /\ (pc[1] = "exited" /\ exitCode[1] = 1) => chatFile = chatFile0[1]
        /\ (pc[1] = "exited" /\ exitCode[1] = 0) =>
               /\ chatFile = [kind |-> "json", hist |-> updated_chat_history[1]]
               /\ Len(updated_chat_history[1]) = 1

\* An invocation given a chat file that is not JSON has generated a reply,
\* saved the new history over the file and exited 0.
C10_Witness ==
    /\ args[1].chat_file
    /\ chatFile0[1].kind = "malformed"
    /\ pc[1] = "exited"
    /\ exitCode[1] = 0
    /\ chatFile.kind = "json"
    /\ Len(chatFile.hist) = 1

(***************************************************************************)
(* Properties of the recording session                                     *)
(***************************************************************************)
\* The shell is at its prompt with a record call behind it.
BackInIdle(sh) == sh.pc = "prompt" /\ sh.sessions >= 1

\* C1: once a session started from Idle with prompt P has ended (script ran,
\* has terminated, and the record call has returned), PS1 is P again.
C1_PromptRestored ==
    \A i \in 1..Len(shells) :
        (BackInIdle(shells[i]) /\ shells[i].fromIdle /\ shells[i].captured)
            => ( "PS1" \in DOMAIN shells[i].env
                 /\ shells[i].env["PS1"] = shells[i].ps1Before )

\* C11: in a record call whose script cannot start, the session markers are
\* never set and the prompt is never changed: once script has failed the
\* shell is as it was before the call.
C11_NoMarkersWhenScriptFails ==
    \A i \in 1..Len(shells) :
        (shells[i].pc = "cleanup" /\ ~shells[i].captured /\ shells[i].fromIdle)
            => /\ DOMAIN shells[i].env \cap MarkerNames = {}
               /\ Expand(shells[i].env, "PS1") = shells[i].ps1Before

\* The session of the k-th shell is in state Recording: the recording
\* indicator is set in its environment.
Recording(k) == Expand(shells[k].env, "VITY_RECORDING") # <<>>

C20_StatusAgreesWithRouting ==
    (Top >= 1 /\ shells[Top].pc = "prompt") =>
        (StatusActive(shells[Top].env) <=> HasActiveLog(shells[Top].env, logs))

\* The places of the assistant messages of a history.
AssistantPlaces(history) ==
    { i \in 1..Len(history) : history[i].role = "assistant" }

\* What main() prints for the text of a message: the command in do mode, the
\* reply in chat mode.
Printed(command, msg) ==
    IF command = "do"
    THEN [what |-> "command", text |-> CmdString(ExtractText(msg).text)]
    ELSE [what |-> "reply", text |-> ExtractText(msg).text]

\* C13: once the extraction step of a do or chat is over, what was printed is
\* the text of the assistant message of greatest index in the updated
\* history, whatever precedes or follows it; with no assistant message in
\* the updated history nothing was printed and the shell history is as it was.
C13_LastAssistantSelected ==
    (pc[1] \in {"save", "exited"} /\ failedAt[1] = "none") =>
        LET history == updated_chat_history[1]
            places == AssistantPlaces(history)
        IN  IF places = {}
            THEN stdout[1] = <<>> /\ bashHistory = bash0[1]
            ELSE \E i \in places :
                    /\ \A j \in places : j <= i
                    /\ stdout[1] = << Printed(args[1].command, history[i]) >>

\* The extraction is over on [assistant, user, assistant, user] with two
\* different replies, and something was printed.
C13_Witness ==
    /\ pc[1] = "save"
    /\ Len(updated_chat_history[1]) = 4
    /\ AssistantPlaces(updated_chat_history[1]) = {1, 3}
    /\ updated_chat_history[1][1] # updated_chat_history[1][3]
    /\ stdout[1] # <<>>

\* C14: when a do or chat given the path of a valid chat file has ended with
\* success, the saved history has the history the file held before the
\* invocation as a prefix and is longer: invocation after invocation the
\* persisted sequence only grows.
C14_HistoryAppendOnly ==
    (/\ pc[1] = "exited"
     /\ exitCode[1] = 0
     /\ args[1].chat_file
     /\ chatFile0[1].kind = "json") =>
        /\ chatFile.kind = "json"
        /\ Len(chatFile.hist) > Len(chatFile0[1].hist)
        /\ \A i \in 1..Len(chatFile0[1].hist) : chatFile.hist[i] = chatFile0[1].hist[i]

\* The second invocation in a row has saved on top of a history that the
\* first one wrote.
C14_Witness ==
    /\ pc[1] = "exited"
    /\ exitCode[1] = 0
    /\ args[1].chat_file
    /\ runs = 2
    /\ chatFile0[1].kind = "json"
    /\ Len(chatFile0[1].hist) >= 1
    /\ Len(chatFile.hist) = Len(chatFile0[1].hist) + 1

\* C15: an install or reinstall made when the profile does not exist reports
\* that it was not found and writes nothing: the profile is not created and
\* no other file is touched.
C15_MissingProfileNoWrite ==
    (lastOp # "none" /\ prevBashrc = NoFile) =>
        /\ bashrc = NoFile
        /\ printed = << "not found" >>
        /\ chatFile = MissingFile
        /\ ~bashHistory.exists
        /\ logs = {}

\* An install and then a reinstall were made with no profile.
C15_Witness ==
    /\ lastOp = "reinstall"
    /\ prevBashrc = NoFile
    /\ nOps = 2
    /\ bashrc = NoFile

\* C19: a do invocation that has ended on the error path, whichever step
\* failed, has appended no line to the shell history.
C19_FailedDoKeepsShellHistory ==
    (/\ pc[1] = "exited"
     /\ args[1].command = "do"
     /\ failedAt[1] # "none"
     /\ exitCode[1] = 1) => bashHistory = bash0[1]

\* C2: whenever a shell is back in Idle after a record call, the four session
\* markers are unset in it.
C2_MarkersCleared ==
    \A i \in 1..Len(shells) :
        BackInIdle(shells[i]) => DOMAIN shells[i].env \cap MarkerNames = {}

\* A shell is back at its prompt after two sessions, the last of which ran a
\* subshell to its exit, and no marker is set in it.
C2_Witness ==
    /\ Len(shells) = 1
    /\ shells[1].pc = "prompt"
    /\ shells[1].sessions = 2
    /\ Cardinality(logs) = 2
    /\ DOMAIN shells[1].env = {"PS1"}

(***************************************************************************)
(* Properties of the installer                                             *)
(***************************************************************************)
\* The places of the marker lines of a text.
MarkerLineIdx(content) == { i \in 1..Len(content) : Strip(content[i]) = MarkerText }

\* The places of the lone closing braces of a text.
BraceLineIdx(content) == { i \in 1..Len(content) : Strip(content[i]) = BraceText }

\* One marker line, and a closing-brace line somewhere after it.
ExactlyOneBlock(content) ==
    /\ Cardinality(MarkerLineIdx(content)) = 1
    /\ \E i \in MarkerLineIdx(content) : \E j \in BraceLineIdx(content) : j > i

\* Of a text with exactly one block: where the block starts and ends.
BlockStart(content) == CHOOSE i \in MarkerLineIdx(content) : TRUE

BlockEnd(content) ==
    CHOOSE j \in BraceLineIdx(content) :
        /\ j > BlockStart(content)
        /\ \A k \in BraceLineIdx(content) : k > BlockStart(content) => j <= k

\* Of a text with exactly one block: the lines before the marker line, then
\* the lines after the closing-brace line.
OutsideLines(content) ==
    SubSeq(content, 1, BlockStart(content) - 1)
        \o SubSeq(content, BlockEnd(content) + 1, Len(content))

IsPrefix(s, t) == Len(s) <= Len(t) /\ SubSeq(t, 1, Len(s)) = s

\* C3: right after a reinstall of an existing profile, whatever its contents
\* and whatever calls came before, the file holds exactly one integration
\* block.
C3_ReinstallLeavesOneBlock ==
    (lastOp = "reinstall" /\ bashrc # NoFile) => ExactlyOneBlock(bashrc)

\* The occurrences of the marker text in a text, each by its line and place.
MarkerOccurrences(content) ==
    UNION { { <<i, j>> : j \in { k \in 1..Len(content[i]) : content[i][k] = "M" } } :
            i \in 1..Len(content) }

\* C4 as stated: after two or more installs in a row on an existing profile,
\* whatever its contents, the marker occurs exactly once in the file and the
\* last install left the file unchanged.
C4_InstallTwiceOneMarker ==
    (installRun >= 2 /\ bashrc # NoFile) =>
        /\ Cardinality(MarkerOccurrences(bashrc)) = 1
        /\ bashrc = prevBashrc

\* C4 amended: every install after the first of a run leaves the file
\* unchanged; the marker then occurs exactly once when it occurred at most
\* once in the file the run started on, and a file that already held the
\* marker is left as it was, with every occurrence it had.
C4_InstallIdempotent ==
    (installRun >= 2 /\ bashrc # NoFile) =>
        /\ bashrc = prevBashrc
        /\ Cardinality(MarkerOccurrences(runStart)) <= 1
               => Cardinality(MarkerOccurrences(bashrc)) = 1
        /\ MarkerInContent(runStart) => bashrc = runStart

\* Two installs were made in a row on a profile that held no marker text:
\* the first appended the block, the second changed nothing.
C4_Witness ==
    /\ installRun >= 2
    /\ bashrc # NoFile
    /\ ~MarkerInContent(runStart)
    /\ bashrc = runStart \o AppendedLines

\* C5: after a reinstall of a profile that held exactly one block, the lines
\* that were outside that block are all still there, unchanged and in their
\* order: they are the first lines of the file.
C5_ReinstallKeepsOutside ==
    (lastOp = "reinstall" /\ prevBashrc # NoFile /\ ExactlyOneBlock(prevBashrc))
        => IsPrefix(OutsideLines(prevBashrc), bashrc)

\* A reinstall was made on a profile with one block, a line before the block
\* and a line after it.
C5_Witness ==
    /\ lastOp = "reinstall"
    /\ prevBashrc # NoFile
    /\ ExactlyOneBlock(prevBashrc)
    /\ BlockStart(prevBashrc) > 1
    /\ BlockEnd(prevBashrc) < Len(prevBashrc)
    /\ prevBashrc[1] # EmptyLine
    /\ prevBashrc[Len(prevBashrc)] # EmptyLine

\* C18: when a reinstall has just been made on a profile that held exactly
\* one integration block (and the marker text nowhere else), a second
\* reinstall made right after it leaves the file as the first one left it.
C18_ReinstallIdempotent ==
    [][(/\ lastOp = "reinstall"
        /\ prevBashrc # NoFile
        /\ ExactlyOneBlock(prevBashrc)
        /\ Cardinality(MarkerOccurrences(prevBashrc)) = 1
        /\ lastOp' = "reinstall"
        /\ nOps' = nOps + 1) => bashrc' = bashrc]_vars

\* The place in ioLog of an access made once, 0 when it was not made.
Place(p, op) ==
    IF \E i \in 1..Len(ioLog) : ioLog[i] = Access(p, op)
    THEN CHOOSE i \in 1..Len(ioLog) : ioLog[i] = Access(p, op)
    ELSE 0

\* Both invocations have ended with success, and both loaded the chat file
\* before either opened it to save: they loaded the same history.
BothLoadedBeforeSaves ==
    /\ \A p \in Procs : pc[p] = "exited" /\ exitCode[p] = 0 /\ failedAt[p] = "none"
    /\ \A p, q \in Procs : Place(p, "load") < Place(q, "open")
    /\ chat_history[1] = chat_history[2]

\* The invocation that wrote last.
LastSaver == ioLog[Len(ioLog)].proc

\* One invocation opened the file while the other was between its open and
\* its write.
SavesOverlap ==
    \E p, q \in Procs :
        Place(p, "open") < Place(q, "open") /\ Place(q, "open") < Place(p, "write")

\* C17 as stated: when both invocations loaded the same history before either
\* saved, the final file is the history written by the one that saved last.
C17_LastWriterWins ==
    BothLoadedBeforeSaves =>
        chatFile = [kind |-> "json", hist |-> updated_chat_history[LastSaver]]

\* C17 amended: when both invocations loaded the same history H before either
\* saved, the final file is the history of the one that saved last (H and
\* its turn only) if the two saves did not overlap; if they overlapped it is
\* that history or a file that is not JSON; in no case does it hold both
\* turns.
C17_LostUpdate ==
    BothLoadedBeforeSaves =>
        /\ ~SavesOverlap =>
               chatFile = [kind |-> "json", hist |-> updated_chat_history[LastSaver]]
        /\ \/ chatFile = [kind |-> "json", hist |-> updated_chat_history[LastSaver]]
           \/ chatFile = Garbled
        /\ chatFile.kind = "json" => Len(chatFile.hist) = Len(chat_history[1]) + 1

\* The update of the first invocation is lost: the two replies differ, the
\* saves did not overlap, and the file ends with the second one's.
C17_Witness ==
    /\ BothLoadedBeforeSaves
    /\ ~SavesOverlap
    /\ LastSaver = 2
    /\ updated_chat_history[1] # updated_chat_history[2]
    /\ Len(chat_history[1]) = 2
    /\ chatFile = [kind |-> "json", hist |-> updated_chat_history[2]]

\* C16 as stated: an invocation with no subcommand has printed help and
\* exited with 0, whatever the configuration state was.
C16_NoSubcommandHelp ==
    (invocations >= 1 /\ lastRun.command = "none") =>
        (lastRun.helped /\ lastRun.exit = 0)

\* C16 amended: an invocation with no subcommand has printed help and exited
\* with 0 when a config file existed or a non-empty key was typed at the
\* prompt of the first-run setup (the key is then in the config file); with
\* no config file and an empty key it has printed no help, exited with 1
\* and written no config file.
C16_HelpAfterSetup ==
    (invocations >= 1 /\ lastRun.command = "none") =>
        IF lastRun.before # NoConfig
        THEN /\ lastRun.helped /\ lastRun.exit = 0 /\ ~lastRun.prompted
             /\ configFile = lastRun.before
        ELSE IF Strip(lastRun.input) # <<>>
        THEN /\ lastRun.helped /\ lastRun.exit = 0 /\ lastRun.prompted
             /\ configFile = Strip(lastRun.input)
        ELSE /\ ~lastRun.helped /\ lastRun.exit = 1 /\ lastRun.prompted
             /\ configFile = NoConfig

\* vity was run with no subcommand and no config file, blanks were typed
\* for the key, and it exited with 1.
C16_Witness ==
    /\ invocations >= 1
    /\ lastRun.command = "none"
    /\ lastRun.before = NoConfig
    /\ lastRun.input = <<" ">>
    /\ lastRun.exit = 1

====
